---------------------------- MODULE Spec2Model ----------------------------
(***************************************************************************)
(* laserdot.c: a PWM minimum value for a laser module on an AVR ATtiny.    *)
(* setup() calibrates two busy-wait loop counts from the EEPROM intensity  *)
(* byte, loop() copies input PB0 to output PB1 and injects a short pulse   *)
(* when the input has not changed for STUCK polls.                         *)
(*                                                                         *)
(* One step of the model is one input poll (the while test together with   *)
(* the statements it leads to, up to the next loop test), one iteration of *)
(* a busy-wait loop, or the exit test of a busy-wait loop.                 *)
(***************************************************************************)
EXTENDS Integers, FiniteSets, Sequences, TLC

VARIABLES
    F_CPU,          \* build: CPU frequency in Hz
    LIMIT_PULSE_UP, \* build: stuck-high feature compiled in
    TEST,           \* build: test mode compiled in
    intensity,      \* the EEPROM byte at address 0
    pc,             \* position of the program
    level,          \* which while loop of loop() the program is in: "Low"/"High"
    pulse_high,     \* static uint16_t pulse_high
    pulse_low,      \* static uint16_t pulse_low
    tout,           \* loop()'s local countdown
    cnt,            \* the by-value counter of the running busy-wait (width / loops)
    PB1,            \* output pin level
    PB0,            \* input pin level (driven by the environment)
    sampled,        \* history: level read by the latest poll, -1 before the first
    same,           \* history: consecutive polls that read the same level
    lowPolls,       \* history: polls made during the current low run of PB1
    lowIters,       \* history: busy-wait iterations made during that low run
    spun,           \* history: iterations made by the current busy-wait call
    gapIters,       \* history: iterations since the latest pulse start, -1 if none
    gapPolls,       \* history: polls since the latest pulse start, -1 if none
    polled,         \* history: counted polls since tout was last set to STUCK
    us1,            \* conversion harness: first argument
    us2,            \* conversion harness: second argument
    loops1,         \* conversion harness: us2loops(us1)
    loops2          \* conversion harness: us2loops(us2)

vars == <<F_CPU, LIMIT_PULSE_UP, TEST, intensity, pc, level, pulse_high,
          pulse_low, tout, cnt, PB1, PB0, sampled, same, lowPolls, lowIters,
          spun, gapIters, gapPolls, polled, us1, us2, loops1, loops2>>

build == <<F_CPU, LIMIT_PULSE_UP, TEST, intensity>>
conv  == <<us1, us2, loops1, loops2>>
obs   == <<gapIters, gapPolls, polled>>
hist  == <<sampled, same, lowPolls, lowIters, spun, obs>>

-----------------------------------------------------------------------------
(* Program constants *)

\* #define STUCK 4000
STUCK == 4000

\* uint16_t: values are kept modulo 2^16
U16 == 65536

\* the two documented clock rates: 16 MHz (T25/45/85) and 9.6 MHz (T13)
Clocks == {16000000, 9600000}

\* the default intensity that replaces an unset EEPROM byte
DefaultIntensity == 5

\* the EEPROM value that means "unset"
Unset == 255

\* the microseconds of one pulse period
Period == 1000

\* the half period of the test signal, in microseconds
TestHalf == 500

-----------------------------------------------------------------------------
(* Bounds of the model *)

\* the conversion harness compares us with us .. us + MaxGap
MaxGap == 2

\* EEPROM bytes the whole-program specification starts from
LoopBytes == {0, 10, 254, 255}

-----------------------------------------------------------------------------
(* Pure functions *)

\* a conversion that forgets the + 1
loops32_noplus(us) == (us * (F_CPU \div 100000)) \div 50

\* (uint32_t)us * (F_CPU / 100000) / 50 + 1, before the conversion to uint16_t.
\* With us < 2^16 and F_CPU / 100000 <= 160 the 32-bit product never wraps.
loops32(us) == (us * (F_CPU \div 100000)) \div 50 + 1

\* a conversion that divides before it multiplies
us2loops_divfirst(us) == ((us \div 50) * (F_CPU \div 100000) + 1) % U16

\* a conversion without the (uint32_t) cast: the product wraps at 16 bits
us2loops_nocast(us) == (((us * (F_CPU \div 100000)) % U16) \div 50 + 1) % U16

\* static inline uint16_t us2loops(uint16_t us)
us2loops(us) == loops32(us) % U16

\* 1000 - pulse_high in unsigned 16-bit arithmetic
OffMicros(on) == (Period - on) % U16

-----------------------------------------------------------------------------
(* History bookkeeping: what a step adds to the observers *)

\* The low-run observers follow the output of the default build; with
\* LIMIT_PULSE_UP compiled in they are not kept (they stay 0).
Observed == ~LIMIT_PULSE_UP /\ PB1 = 0

\* a poll made while the output is low belongs to the low run
PollCount == IF Observed THEN lowPolls + 1 ELSE 0

\* a step that is neither a poll nor an iteration
KeepPolls == IF Observed THEN lowPolls ELSE 0

\* a busy-wait iteration made while the output is low belongs to the low run
IterCount == IF Observed THEN lowIters + 1 ELSE 0

KeepIters == IF Observed THEN lowIters ELSE 0

\* same is only needed up to STUCK + 2
SameCap == STUCK + 2

\* consecutive polls reading the same level, restarted by a change and by an
\* injection (same = 0 after an injection and before the first poll)
SameAfter(v) == IF same > 0 /\ v = sampled
                THEN (IF same < SameCap THEN same + 1 ELSE SameCap)
                ELSE 1

\* The gap observers measure from the start of one injected pulse to the
\* start of the next one; they are valid (not -1) as long as no poll has
\* observed an input change since that start. The state in which a pulse has
\* just started (pc = "pulse", spun = 0) still shows the gap that led to it;
\* the first step of the pulse starts the new measure.
GapPollsAfterPoll == IF gapPolls = -1 THEN -1 ELSE gapPolls + 1

GapItersAfterIter == IF pc = "pulse" /\ spun = 0 THEN 1
                     ELSE IF gapIters = -1 THEN -1 ELSE gapIters + 1

GapPollsAfterIter == IF pc = "pulse" /\ spun = 0 THEN 0 ELSE gapPolls

GapItersAfterExit == IF pc = "pulse" /\ spun = 0 THEN 0 ELSE gapIters

-----------------------------------------------------------------------------
(* setup() *)

\* DDRB = _BV(DDB1); PORTB |= _BV(PB0); PORTB &= ~_BV(PB1);
SetupPins ==
    /\ pc = "setup_pins"
    /\ PB1' = 0
    /\ pc' = "setup_read"
    /\ UNCHANGED <<build, conv, hist, level, pulse_high, pulse_low, tout, cnt, PB0>>

\* pulse_high = eeprom_read_byte(&intensity);
SetupRead ==
    /\ pc = "setup_read"
    /\ pulse_high' = intensity
    /\ pc' = "setup_default"
    /\ UNCHANGED <<build, conv, hist, level, pulse_low, tout, cnt, PB0, PB1>>

\* a setup() that keeps the unset byte
SetupDefault_skip ==
    /\ pc = "setup_default"
    /\ pc' = "setup_low"
    /\ UNCHANGED <<build, conv, hist, level, pulse_high, pulse_low, tout, cnt, PB0, PB1>>

\* if (pulse_high == 0xff) pulse_high = 5;
SetupDefault ==
    /\ pc = "setup_default"
    /\ pulse_high' = IF pulse_high = Unset THEN DefaultIntensity ELSE pulse_high
    /\ pc' = "setup_low"
    /\ UNCHANGED <<build, conv, hist, level, pulse_low, tout, cnt, PB0, PB1>>

\* a setup() that subtracts the already converted loop count
SetupLow_converted ==
    /\ pc = "setup_low"
    /\ pulse_low' = us2loops(OffMicros(us2loops(pulse_high)))
    /\ pc' = "setup_high"
    /\ UNCHANGED <<build, conv, hist, level, pulse_high, tout, cnt, PB0, PB1>>

\* pulse_low = us2loops(1000 - pulse_high);
SetupLow ==
    /\ pc = "setup_low"
    /\ pulse_low' = us2loops(OffMicros(pulse_high))
    /\ pc' = "setup_high"
    /\ UNCHANGED <<build, conv, hist, level, pulse_high, tout, cnt, PB0, PB1>>

\* pulse_high = us2loops(pulse_high);
SetupHigh ==
    /\ pc = "setup_high"
    /\ pulse_high' = us2loops(pulse_high)
    /\ pc' = "main"
    /\ UNCHANGED <<build, conv, hist, level, pulse_low, tout, cnt, PB0, PB1>>

setup == SetupPins \/ SetupRead \/ SetupDefault \/ SetupLow \/ SetupHigh

-----------------------------------------------------------------------------
(* Timing primitives *)

\* a test that decrements first: (!--tout)
TimedOut_pre(t) == t = 1

\* the test (!tout--) of loop(): true when the countdown has reached zero
TimedOut(t) == t = 0

\* the post-decrement of a uint16_t counter
Decr(t) == (t + U16 - 1) % U16

\* a call that passes the off width: send_pulse(PB1, pulse_low)
StartPulse_lowWidth ==
    /\ PB1' = 1
    /\ cnt' = pulse_low
    /\ spun' = 0
    /\ pc' = "pulse"

\* send_pulse(PB1, pulse_high): PORTB |= _BV(port), then the width loop starts.
\* Called from the poll that found the countdown at zero.
StartPulse ==
    /\ PB1' = 1
    /\ cnt' = pulse_high
    /\ spun' = 0
    /\ pc' = "pulse"

\* a width loop that counts down the calibrated variable itself
SendPulseIter_byRef ==
    /\ pc = "pulse"
    /\ cnt # 0
    /\ cnt' = Decr(cnt)
    /\ pulse_high' = Decr(cnt)
    /\ spun' = spun + 1
    /\ lowPolls' = KeepPolls
    /\ lowIters' = IterCount
    /\ gapIters' = GapItersAfterIter
    /\ gapPolls' = GapPollsAfterIter
    /\ UNCHANGED polled
    /\ UNCHANGED <<build, conv, pc, level, pulse_low, tout, PB0, PB1,
                   sampled, same>>

\* while (width--) asm volatile(""); one iteration
SendPulseIter ==
    /\ pc = "pulse"
    /\ cnt # 0
    /\ cnt' = Decr(cnt)
    /\ spun' = spun + 1
    /\ lowPolls' = KeepPolls
    /\ lowIters' = IterCount
    /\ gapIters' = GapItersAfterIter
    /\ gapPolls' = GapPollsAfterIter
    /\ UNCHANGED polled
    /\ UNCHANGED <<build, conv, pc, level, pulse_high, pulse_low, tout, PB0, PB1,
                   sampled, same>>

\* a loop that waits the on width again: delay(pulse_high)
SendPulseEnd_highWait ==
    /\ pc = "pulse"
    /\ cnt = 0
    /\ PB1' = 0
    /\ cnt' = pulse_high
    /\ spun' = 0
    /\ pc' = "delay"
    /\ lowPolls' = KeepPolls
    /\ lowIters' = KeepIters
    /\ gapIters' = GapItersAfterExit
    /\ gapPolls' = GapPollsAfterIter
    /\ UNCHANGED polled
    /\ UNCHANGED <<build, conv, level, pulse_high, pulse_low, tout, PB0,
                   sampled, same>>

\* the width loop ends; PORTB &= ~_BV(port); delay(pulse_low) starts
SendPulseEnd ==
    /\ pc = "pulse"
    /\ cnt = 0
    /\ PB1' = 0
    /\ cnt' = pulse_low
    /\ spun' = 0
    /\ pc' = "delay"
    /\ lowPolls' = KeepPolls
    /\ lowIters' = KeepIters
    /\ gapIters' = GapItersAfterExit
    /\ gapPolls' = GapPollsAfterIter
    /\ UNCHANGED polled
    /\ UNCHANGED <<build, conv, level, pulse_high, pulse_low, tout, PB0,
                   sampled, same>>

\* a wait that reads the input pin at every iteration
DelayIter_sampling ==
    /\ pc = "delay"
    /\ cnt # 0
    /\ cnt' = Decr(cnt)
    /\ spun' = spun + 1
    /\ sampled' = PB0
    /\ lowPolls' = KeepPolls
    /\ lowIters' = IterCount
    /\ gapIters' = GapItersAfterIter
    /\ gapPolls' = GapPollsAfterIter
    /\ UNCHANGED polled
    /\ UNCHANGED <<build, conv, pc, level, pulse_high, pulse_low, tout, PB0, PB1,
                   same>>

\* while (loops--) asm volatile(""); one iteration
DelayIter ==
    /\ pc = "delay"
    /\ cnt # 0
    /\ cnt' = Decr(cnt)
    /\ spun' = spun + 1
    /\ lowPolls' = KeepPolls
    /\ lowIters' = IterCount
    /\ gapIters' = GapItersAfterIter
    /\ gapPolls' = GapPollsAfterIter
    /\ UNCHANGED polled
    /\ UNCHANGED <<build, conv, pc, level, pulse_high, pulse_low, tout, PB0, PB1,
                   sampled, same>>

\* a loop that forgets tout = STUCK after the pulse
DelayEnd_noReload ==
    /\ pc = "delay"
    /\ cnt = 0
    /\ cnt' = Decr(cnt)
    /\ pc' = "poll"
    /\ same' = 0
    /\ lowPolls' = KeepPolls
    /\ lowIters' = KeepIters
    /\ UNCHANGED obs
    /\ UNCHANGED <<build, conv, level, pulse_high, pulse_low, PB0, PB1,
                   sampled, spun, tout>>

\* delay() returns; tout = STUCK; back to the while test of the current loop
DelayEnd ==
    /\ pc = "delay"
    /\ cnt = 0
    /\ cnt' = Decr(cnt)
    /\ tout' = STUCK
    /\ pc' = "poll"
    /\ same' = 0
    /\ lowPolls' = KeepPolls
    /\ lowIters' = KeepIters
    /\ polled' = 0
    /\ UNCHANGED <<gapIters, gapPolls>>
    /\ UNCHANGED <<build, conv, level, pulse_high, pulse_low, PB0, PB1,
                   sampled, spun>>

-----------------------------------------------------------------------------
(* main() and loop() *)

\* main(), #else branch: while (1) loop(); loop() starts with tout = STUCK
MainLoop ==
    /\ pc = "main"
    /\ ~TEST
    /\ tout' = STUCK
    /\ level' = "Low"
    /\ pc' = "poll"
    /\ UNCHANGED <<build, conv, hist, pulse_high, pulse_low, cnt, PB0, PB1>>

\* a low loop that forgets PORTB |= _BV(PB1) when the pulse starts
PollLow_noCopy ==
    /\ pc = "poll"
    /\ level = "Low"
    /\ sampled' = PB0
    /\ same' = SameAfter(PB0)
    /\ lowPolls' = PollCount
    /\ lowIters' = KeepIters
    /\ gapIters' = (IF PB0 = 0 THEN gapIters ELSE -1)
    /\ gapPolls' = (IF PB0 = 0 THEN GapPollsAfterPoll ELSE -1)
    /\ polled' = (IF PB0 = 0 THEN polled + 1 ELSE 0)
    /\ IF PB0 = 0
       THEN IF TimedOut(tout)
            THEN /\ tout' = Decr(tout)
                 /\ StartPulse
                 /\ UNCHANGED level
            ELSE /\ tout' = Decr(tout)
                 /\ UNCHANGED <<pc, level, PB1, cnt, spun>>
       ELSE /\ tout' = STUCK
            /\ level' = "High"
            /\ UNCHANGED <<pc, cnt, spun, PB1>>
    /\ UNCHANGED <<build, conv, pulse_high, pulse_low, PB0>>

\* one test of while (!(PINB & _BV(PB0))) and what it leads to
PollLow ==
    /\ pc = "poll"
    /\ level = "Low"
    /\ sampled' = PB0
    /\ same' = SameAfter(PB0)
    /\ lowPolls' = PollCount
    /\ lowIters' = KeepIters
    /\ gapIters' = (IF PB0 = 0 THEN gapIters ELSE -1)
    /\ gapPolls' = (IF PB0 = 0 THEN GapPollsAfterPoll ELSE -1)
    /\ polled' = (IF PB0 = 0 THEN polled + 1 ELSE 0)
    /\ IF PB0 = 0
       THEN IF TimedOut(tout)
            THEN /\ tout' = Decr(tout)
                 /\ StartPulse
                 /\ UNCHANGED level
            ELSE /\ tout' = Decr(tout)
                 /\ UNCHANGED <<pc, level, PB1, cnt, spun>>
       ELSE \* the pulse started: PORTB |= _BV(PB1); tout = STUCK;
            /\ PB1' = 1
            /\ tout' = STUCK
            /\ level' = "High"
            /\ UNCHANGED <<pc, cnt, spun>>
    /\ UNCHANGED <<build, conv, pulse_high, pulse_low, PB0>>

\* a high loop that leaves tout as it is when the pulse stops
PollHigh_noReload ==
    /\ pc = "poll"
    /\ level = "High"
    /\ sampled' = PB0
    /\ same' = SameAfter(PB0)
    /\ lowPolls' = PollCount
    /\ lowIters' = KeepIters
    /\ gapIters' = (IF PB0 = 1 THEN gapIters ELSE -1)
    /\ gapPolls' = (IF PB0 = 1
                   THEN (IF LIMIT_PULSE_UP THEN GapPollsAfterPoll ELSE gapPolls)
                   ELSE -1)
    /\ polled' = (IF PB0 = 1
                 THEN (IF LIMIT_PULSE_UP THEN polled + 1 ELSE polled)
                 ELSE polled)
    /\ IF PB0 = 1
       THEN IF LIMIT_PULSE_UP
            THEN IF TimedOut(tout)
                 THEN /\ tout' = Decr(tout)
                      /\ StartPulse
                      /\ UNCHANGED level
                 ELSE /\ tout' = Decr(tout)
                      /\ UNCHANGED <<pc, level, PB1, cnt, spun>>
            ELSE UNCHANGED <<pc, level, PB1, cnt, spun, tout>>
       ELSE /\ PB1' = 0
            /\ level' = "Low"
            /\ UNCHANGED <<pc, cnt, spun, tout>>
    /\ UNCHANGED <<build, conv, pulse_high, pulse_low, PB0>>

\* a high loop whose timeout is compiled in whatever LIMIT_PULSE_UP says
PollHigh_alwaysLimit ==
    /\ pc = "poll"
    /\ level = "High"
    /\ sampled' = PB0
    /\ same' = SameAfter(PB0)
    /\ lowPolls' = PollCount
    /\ lowIters' = KeepIters
    /\ gapIters' = (IF PB0 = 1 THEN gapIters ELSE -1)
    /\ gapPolls' = (IF PB0 = 1
                   THEN (IF LIMIT_PULSE_UP THEN GapPollsAfterPoll ELSE gapPolls)
                   ELSE -1)
    /\ polled' = (IF PB0 = 1
                 THEN (IF LIMIT_PULSE_UP THEN polled + 1 ELSE polled)
                 ELSE 0)
    /\ IF PB0 = 1
       THEN IF TimedOut(tout)
            THEN /\ tout' = Decr(tout)
                 /\ StartPulse
                 /\ UNCHANGED level
            ELSE /\ tout' = Decr(tout)
                 /\ UNCHANGED <<pc, level, PB1, cnt, spun>>
       ELSE \* the pulse stopped: PORTB &= ~_BV(PB1); next round: tout = STUCK;
            /\ PB1' = 0
            /\ tout' = STUCK
            /\ level' = "Low"
            /\ UNCHANGED <<pc, cnt, spun>>
    /\ UNCHANGED <<build, conv, pulse_high, pulse_low, PB0>>

\* a high loop that drives the output high again at every poll that reads high
PollHigh_remirror ==
    /\ pc = "poll"
    /\ level = "High"
    /\ sampled' = PB0
    /\ same' = SameAfter(PB0)
    /\ lowPolls' = PollCount
    /\ lowIters' = KeepIters
    /\ gapIters' = (IF PB0 = 1 THEN gapIters ELSE -1)
    /\ gapPolls' = (IF PB0 = 1
                   THEN (IF LIMIT_PULSE_UP THEN GapPollsAfterPoll ELSE gapPolls)
                   ELSE -1)
    /\ polled' = (IF PB0 = 1
                 THEN (IF LIMIT_PULSE_UP THEN polled + 1 ELSE polled)
                 ELSE 0)
    /\ IF PB0 = 1
       THEN IF LIMIT_PULSE_UP
            THEN IF TimedOut(tout)
                 THEN /\ tout' = Decr(tout)
                      /\ StartPulse
                      /\ UNCHANGED level
                 ELSE /\ tout' = Decr(tout)
                      /\ PB1' = 1
                      /\ UNCHANGED <<pc, level, cnt, spun>>
            ELSE UNCHANGED <<pc, level, PB1, cnt, spun, tout>>
       ELSE \* the pulse stopped: PORTB &= ~_BV(PB1); next round: tout = STUCK;
            /\ PB1' = 0
            /\ tout' = STUCK
            /\ level' = "Low"
            /\ UNCHANGED <<pc, cnt, spun>>
    /\ UNCHANGED <<build, conv, pulse_high, pulse_low, PB0>>

\* one test of while (PINB & _BV(PB0)) and what it leads to
PollHigh ==
    /\ pc = "poll"
    /\ level = "High"
    /\ sampled' = PB0
    /\ same' = SameAfter(PB0)
    /\ lowPolls' = PollCount
    /\ lowIters' = KeepIters
    /\ gapIters' = (IF PB0 = 1 THEN gapIters ELSE -1)
    /\ gapPolls' = (IF PB0 = 1
                   THEN (IF LIMIT_PULSE_UP THEN GapPollsAfterPoll ELSE gapPolls)
                   ELSE -1)
    /\ polled' = (IF PB0 = 1
                 THEN (IF LIMIT_PULSE_UP THEN polled + 1 ELSE polled)
                 ELSE 0)
    /\ IF PB0 = 1
       THEN IF LIMIT_PULSE_UP
            THEN IF TimedOut(tout)
                 THEN /\ tout' = Decr(tout)
                      /\ StartPulse
                      /\ UNCHANGED level
                 ELSE /\ tout' = Decr(tout)
                      /\ UNCHANGED <<pc, level, PB1, cnt, spun>>
            ELSE UNCHANGED <<pc, level, PB1, cnt, spun, tout>>
       ELSE \* the pulse stopped: PORTB &= ~_BV(PB1); next round: tout = STUCK;
            /\ PB1' = 0
            /\ tout' = STUCK
            /\ level' = "Low"
            /\ UNCHANGED <<pc, cnt, spun>>
    /\ UNCHANGED <<build, conv, pulse_high, pulse_low, PB0>>

loop == PollLow \/ PollHigh \/ SendPulseIter \/ SendPulseEnd \/ DelayIter \/ DelayEnd

-----------------------------------------------------------------------------
(* main(), #if TEST branch *)

\* while (1) { delay_us(500); ...: the first delay starts
MainTest ==
    /\ pc = "main"
    /\ TEST
    /\ cnt' = us2loops(TestHalf)
    /\ spun' = 0
    /\ pc' = "test_delay"
    /\ UNCHANGED <<build, conv, level, pulse_high, pulse_low, tout, PB0, PB1,
                   sampled, same, lowPolls, lowIters, obs>>

\* one iteration of delay()'s loop inside delay_us(500)
TestDelayIter ==
    /\ pc = "test_delay"
    /\ cnt # 0
    /\ cnt' = Decr(cnt)
    /\ spun' = spun + 1
    /\ lowPolls' = KeepPolls
    /\ lowIters' = IterCount
    /\ UNCHANGED <<build, conv, pc, level, pulse_high, pulse_low, tout, PB0, PB1,
                   sampled, same, obs>>

\* a test loop that passes microseconds as loops: delay(500)
TestToggle_rawLoops ==
    /\ pc = "test_delay"
    /\ cnt = 0
    /\ PB1' = 1 - PB1
    /\ cnt' = TestHalf
    /\ spun' = 0
    /\ lowPolls' = KeepPolls
    /\ lowIters' = KeepIters
    /\ UNCHANGED <<build, conv, pc, level, pulse_high, pulse_low, tout, PB0,
                   sampled, same, obs>>

\* delay_us returns; PORTB ^= _BV(PB1); the next delay_us(500) starts
TestToggle ==
    /\ pc = "test_delay"
    /\ cnt = 0
    /\ PB1' = 1 - PB1
    /\ cnt' = us2loops(TestHalf)
    /\ spun' = 0
    /\ lowPolls' = KeepPolls
    /\ lowIters' = KeepIters
    /\ UNCHANGED <<build, conv, pc, level, pulse_high, pulse_low, tout, PB0,
                   sampled, same, obs>>

test == MainTest \/ TestDelayIter \/ TestToggle

-----------------------------------------------------------------------------
(* The environment: the signal wired to PB0 may change at any time *)

InputChange ==
    /\ PB0' = 1 - PB0
    /\ UNCHANGED <<build, conv, hist, pc, level, pulse_high, pulse_low, tout,
                   cnt, PB1>>

-----------------------------------------------------------------------------
(* Conversion harness: us2loops applied to two 16-bit arguments, as         *)
(* delay_us() and send_pulse_us() apply it to their argument                *)

Convert ==
    /\ pc = "conv"
    /\ loops1' = us2loops(us1)
    /\ loops2' = us2loops(us2)
    /\ pc' = "conv_done"
    /\ UNCHANGED <<build, hist, us1, us2, level, pulse_high, pulse_low, tout,
                   cnt, PB0, PB1>>

-----------------------------------------------------------------------------
(* Specifications *)

\* what is common to every initial state: the chip after reset
Reset ==
    /\ level = "Low"
    /\ pulse_high = 0
    /\ pulse_low = 0
    /\ tout = 0
    /\ cnt = 0
    /\ PB1 = 0
    /\ sampled = -1
    /\ same = 0
    /\ lowPolls = 0
    /\ lowIters = 0
    /\ spun = 0
    /\ gapIters = -1
    /\ gapPolls = -1
    /\ polled = 0

\* the whole program, in every build, with the input free to change
Init ==
    /\ F_CPU \in Clocks
    /\ TEST \in BOOLEAN
    /\ LIMIT_PULSE_UP \in (IF TEST THEN {FALSE} ELSE BOOLEAN)
    /\ intensity \in LoopBytes
    /\ pc = "setup_pins"
    /\ PB0 \in {0, 1}
    /\ Reset
    /\ us1 = 0 /\ us2 = 0 /\ loops1 = 0 /\ loops2 = 0

Program == setup \/ MainLoop \/ loop \/ test

Next == Program \/ InputChange

Spec == Init /\ [][Next]_vars

\* the CPU never stops executing
FairSpec == Init /\ [][Next]_vars /\ WF_vars(Program)

\* setup() alone, for every EEPROM byte, in the default build
InitSetup ==
    /\ F_CPU \in Clocks
    /\ TEST = FALSE
    /\ LIMIT_PULSE_UP = FALSE
    /\ intensity \in 0 .. 255
    /\ pc = "setup_pins"
    /\ PB0 = 0
    /\ Reset
    /\ us1 = 0 /\ us2 = 0 /\ loops1 = 0 /\ loops2 = 0

SpecSetup == InitSetup /\ [][setup]_vars

\* us2loops alone, for every 16-bit argument and the nearby larger ones
InitConv ==
    /\ F_CPU \in Clocks
    /\ TEST = FALSE
    /\ LIMIT_PULSE_UP = FALSE
    /\ intensity = Unset
    /\ pc = "conv"
    /\ PB0 = 0
    /\ Reset
    /\ us1 \in 0 .. U16 - 1
    /\ us2 \in {u \in us1 .. us1 + MaxGap : u < U16}
    /\ loops1 = 0 /\ loops2 = 0

SpecConv == InitConv /\ [][Convert]_vars

-----------------------------------------------------------------------------
(* Properties of the polling loop *)

\* the program is inside loop(): polling, or inside an injected pulse
InLoop == pc \in {"poll", "pulse", "delay"}

\* the default build: neither TEST nor LIMIT_PULSE_UP
DefaultBuild == ~TEST /\ ~LIMIT_PULSE_UP

\* C1: in the default build a low run of the output holds at most pulse_low
\* busy-wait iterations and at most STUCK + 1 polls, and the poll that is the
\* (STUCK + 1)-th of the run leaves the output high.
C1_LowRunBounded ==
    (DefaultBuild /\ InLoop) =>
        /\ lowIters <= pulse_low
        /\ lowPolls <= STUCK + 1
        /\ (lowPolls = STUCK + 1 => PB1 = 1)

\* a low run of full length (a whole off wait and STUCK + 1 polls) has just
\* been ended by an injected pulse
C1_Witness ==
    /\ DefaultBuild
    /\ pc = "pulse"
    /\ PB1 = 1
    /\ lowIters = pulse_low
    /\ pulse_low > 0
    /\ lowPolls = STUCK + 1

\* C2: with the input low forever pulses are injected again and again; an
\* injected pulse holds the output high for exactly pulse_high iterations and
\* then low for exactly pulse_low iterations; a poll of the low loop that
\* reads the input high drives the output high, and in the default build no
\* pulse is injected while the loop is waiting for the input to go low.
C2_InjectedPulses ==
    /\ (<>[](~TEST /\ PB0 = 0)) => []<>(pc = "pulse")
    /\ [](pc = "pulse" => PB1 = 1)
    /\ [](pc = "delay" => PB1 = 0)
    /\ [][(pc = "pulse" /\ pc' = "delay") => (spun = pulse_high /\ PB1' = 0)]_vars
    /\ [][(pc = "delay" /\ pc' = "poll") => spun = pulse_low]_vars
    /\ [][(pc = "poll" /\ level = "Low" /\ PB0 = 1 /\ PB0' = 1)
            => (PB1' = 1 /\ level' = "High" /\ pc' = "poll")]_vars
    /\ []((DefaultBuild /\ InLoop /\ level = "High") => (pc = "poll" /\ PB1 = 1))

\* an injected pulse has run its pulse_high iterations with the input low
C2_Witness ==
    /\ ~TEST
    /\ pc = "pulse"
    /\ cnt = 0
    /\ spun = pulse_high
    /\ pulse_high > 0
    /\ PB0 = 0
    /\ level = "Low"

\* C3: when a pulse is injected, at least STUCK consecutive polls have read
\* the same input level since the last change and the last injection; the
\* countdown is back at STUCK after every observed change and every
\* injection; and the output changes only inside an injected pulse or as the
\* copy of an input change a poll has just observed.
C3_InjectOnlyWhenStuck ==
    /\ []((pc \in {"pulse", "delay"}) => same >= STUCK)
    /\ [][(pc' = "poll" /\ (pc = "delay" \/ (sampled # -1 /\ sampled' # sampled)))
            => tout' = STUCK]_vars
    /\ [][(~TEST /\ PB1' # PB1)
            => \/ pc = "pulse"
               \/ pc' = "pulse"
               \/ (pc = "poll" /\ sampled' # sampled /\ PB1' = sampled')]_vars

\* a pulse is being injected after the input stayed low
C3_Witness ==
    /\ pc = "pulse"
    /\ same >= STUCK
    /\ sampled = 0
    /\ level = "Low"

\* C4: in the default build, at every poll after the first and outside an
\* injected pulse, the output equals the level the previous poll read.
C4_OutputFollowsSample ==
    (DefaultBuild /\ pc = "poll" /\ sampled # -1) => PB1 = sampled

\* a poll has just observed a high-to-low change and the output is low
C4_Witness ==
    /\ DefaultBuild
    /\ pc = "poll"
    /\ sampled = 0
    /\ same = 1
    /\ level = "Low"
    /\ tout = STUCK
    /\ lowPolls = 0
    /\ PB1 = 0

-----------------------------------------------------------------------------
(* Properties of setup() *)

\* setup() has returned
Calibrated == pc = "main"

\* C5: for a stored byte raw in 0..254, setup() leaves pulse_high =
\* us2loops(raw) and pulse_low = us2loops(1000 - raw), the subtraction made on
\* the microsecond value; raw = 10 gives 33 and 3169 loops at 16 MHz, 20 and
\* 1901 loops at 9.6 MHz.
C5_SetupConverts ==
    (Calibrated /\ intensity <= 254) =>
        /\ pulse_high = us2loops(intensity)
        /\ pulse_low = us2loops(Period - intensity)
        /\ (intensity = 10 /\ F_CPU = 16000000) => (pulse_high = 33 /\ pulse_low = 3169)
        /\ (intensity = 10 /\ F_CPU = 9600000) => (pulse_high = 20 /\ pulse_low = 1901)

\* setup() has run on the byte 10 at 16 MHz
C5_Witness ==
    /\ Calibrated
    /\ intensity = 10
    /\ F_CPU = 16000000
    /\ pulse_high = 33
    /\ pulse_low = 3169

\* C6: the byte 255 is replaced by 5 before the conversion and no other byte
\* is replaced: the value setup() converts is 5 for 255 and the byte itself
\* otherwise, and setup() on 255 ends with the durations of 5 us and 995 us.
C6_UnsetIsDefault ==
    /\ pc \in {"setup_low", "setup_high"} =>
           pulse_high = (IF intensity = Unset THEN DefaultIntensity ELSE intensity)
    /\ (Calibrated /\ intensity = Unset) =>
           /\ pulse_high = us2loops(DefaultIntensity)
           /\ pulse_low = us2loops(Period - DefaultIntensity)

\* setup() has run on the unset byte at 16 MHz: 17 and 3185 loops
C6_Witness ==
    /\ Calibrated
    /\ intensity = Unset
    /\ F_CPU = 16000000
    /\ pulse_high = 17
    /\ pulse_low = 3185

\* C7: for a stored byte in 0..254, pulse_high + pulse_low is within one loop
\* iteration of us2loops(1000), which is 3201 at 16 MHz and 1921 at 9.6 MHz.
C7_PeriodKept ==
    (Calibrated /\ intensity <= 254) =>
        /\ pulse_high + pulse_low - us2loops(Period) \in {-1, 0, 1}
        /\ us2loops(Period) = (IF F_CPU = 16000000 THEN 3201 ELSE 1921)

\* setup() has run on a byte whose two parts add up to one loop more than
\* us2loops(1000)
C7_Witness ==
    /\ Calibrated
    /\ intensity = 10
    /\ F_CPU = 16000000
    /\ pulse_high + pulse_low = 3202

\* C8: for every stored byte, pulse_high after setup() is at most
\* us2loops(250), the loop count of 25% of the period.
C8_OnCapped ==
    Calibrated => pulse_high <= us2loops(250)

-----------------------------------------------------------------------------
(* Properties of us2loops *)

\* us2loops has been applied to us1 and us2
Converted == pc = "conv_done"

\* the largest argument whose 32-bit loop count still fits in 16 bits
MaxExact == IF F_CPU = 16000000 THEN 20479 ELSE 34132

\* C9 as stated: us2loops is monotonically non-decreasing over all 16-bit
\* arguments.
C9_MonotonicEverywhere ==
    Converted => loops1 <= loops2

\* C9 as amended: us2loops is monotonically non-decreasing over the arguments
\* whose loop count fits in 16 bits (up to 20479 us at 16 MHz, 34132 us at
\* 9.6 MHz); checked for us1 <= us2 <= us1 + MaxGap, which gives every pair by
\* the transitivity of <=.
C9_MonotonicInRange ==
    (Converted /\ us2 <= MaxExact) => loops1 <= loops2

\* the last two arguments of the range at 16 MHz have been converted
C9_Witness ==
    /\ Converted
    /\ F_CPU = 16000000
    /\ us1 = 20478
    /\ us2 = 20479
    /\ loops1 = 65530
    /\ loops2 = 65533

\* C10 as stated: us2loops returns at least 1 for every 16-bit argument.
C10_NeverZero ==
    Converted => loops1 >= 1

\* C10 as amended: us2loops(0) = 1, and us2loops returns at least 1 for every
\* 16-bit argument except 34133 us at 9.6 MHz, whose loop count 65536 is
\* truncated to 0.
C10_NeverZeroButOne ==
    Converted =>
        /\ (us1 = 0 => loops1 = 1)
        /\ (~(F_CPU = 9600000 /\ us1 = 34133) => loops1 >= 1)
        /\ ((F_CPU = 9600000 /\ us1 = 34133) => (loops32(us1) = U16 /\ loops1 = 0))

\* us2loops has been applied to 0
C10_Witness ==
    /\ Converted
    /\ us1 = 0
    /\ loops1 = 1

-----------------------------------------------------------------------------
(* Further properties of the polling loop *)

\* C11: without LIMIT_PULSE_UP, while the program is in the high loop it only
\* polls: the output is high, the countdown stays at STUCK with no counted
\* poll, no pulse is injected, and a poll that reads the input high leaves all
\* of that as it is.
C11_WaitsWhileHigh ==
    /\ []((DefaultBuild /\ InLoop /\ level = "High")
            => (pc = "poll" /\ PB1 = 1 /\ tout = STUCK /\ polled = 0))
    /\ [][(DefaultBuild /\ pc = "poll" /\ level = "High" /\ PB0 = 1 /\ PB0' = 1)
            => (level' = "High" /\ pc' = "poll" /\ PB1' = 1 /\ tout' = STUCK)]_vars

\* more than STUCK + 1 polls in a row have read the input high and the output
\* is still high
C11_Witness ==
    /\ DefaultBuild
    /\ level = "High"
    /\ pc = "poll"
    /\ sampled = 1
    /\ same = SameCap
    /\ PB1 = 1
    /\ tout = STUCK

\* a pulse has just started in the low loop and no input change has been
\* observed since the previous pulse started
NextPulseStarted ==
    /\ ~TEST
    /\ pc = "pulse"
    /\ spun = 0
    /\ level = "Low"
    /\ gapIters # -1

\* C12 as stated: the starts of two consecutive injected pulses are one
\* period of pulse_high + pulse_low busy-wait iterations apart, with no wait
\* other than the one poll that finds the input still low.
C12_OnePeriodApart ==
    NextPulseStarted => (gapIters = pulse_high + pulse_low /\ gapPolls <= 1)

\* C12 as amended: the starts of two consecutive injected pulses are
\* pulse_high + pulse_low busy-wait iterations and STUCK + 1 input polls
\* apart.
C12_PeriodPlusTimeout ==
    NextPulseStarted => (gapIters = pulse_high + pulse_low /\ gapPolls = STUCK + 1)

\* with the input low, a second pulse has started a period and a timeout
\* after the first
C12_Witness ==
    /\ NextPulseStarted
    /\ PB0 = 0
    /\ sampled = 0
    /\ pulse_high > 0
    /\ gapIters = pulse_high + pulse_low
    /\ gapPolls = STUCK + 1

-----------------------------------------------------------------------------
(* Properties of the TEST build *)

\* the loop count of one half period of the test signal
HalfLoops == IF F_CPU = 16000000 THEN 1601 ELSE 961

\* C13: in the TEST build, after setup() the program never enters loop() and
\* never reads the input; PB1 toggles again and again, and every toggle comes
\* after exactly us2loops(500) busy-wait iterations (1601 at 16 MHz, 961 at
\* 9.6 MHz), whatever the input does and whatever the stored byte is.
C13_TestSquareWave ==
    /\ [](TEST => (~InLoop /\ sampled = -1 /\ polled = 0))
    /\ [](us2loops(TestHalf) = HalfLoops)
    /\ [][(TEST /\ PB1' # PB1) => (pc = "test_delay" /\ spun = HalfLoops)]_vars
    /\ [][(TEST /\ pc = "test_delay" /\ spun < HalfLoops /\ PB0' = PB0)
            => (PB1' = PB1 /\ spun' = spun + 1)]_vars
    /\ (TEST => ([]<>(PB1 = 1) /\ []<>(PB1 = 0)))

\* the output has been high for a whole half period and is about to toggle
C13_Witness ==
    /\ TEST
    /\ pc = "test_delay"
    /\ PB1 = 1
    /\ cnt = 0
    /\ spun = HalfLoops
    /\ sampled = -1

-----------------------------------------------------------------------------
(* Properties of the countdown *)

\* C14 as stated: in the low loop the pulse is emitted at the poll whose
\* decrement brings tout to zero, the STUCK-th low poll since tout was set to
\* STUCK.
C14_OnStuckthPoll ==
    (~TEST /\ pc = "pulse" /\ level = "Low") => (polled = STUCK /\ tout = 0)

\* C14 as amended: in the low loop tout starts at STUCK and loses one per poll
\* that reads the input low; the pulse is emitted at the poll that finds tout
\* already at zero (its decrement wraps tout to 65535), the (STUCK + 1)-th low
\* poll since tout was set to STUCK; and tout is back at STUCK at the first
\* poll after the pulse.
C14_OnPollAfterZero ==
    /\ (~TEST /\ pc = "poll" /\ level = "Low")
           => (polled <= STUCK /\ tout = STUCK - polled)
    /\ (~TEST /\ pc \in {"pulse", "delay"} /\ level = "Low")
           => (polled = STUCK + 1 /\ tout = U16 - 1)
    /\ (~TEST /\ pc = "poll" /\ same = 0) => tout = STUCK

\* a pulse has just been emitted from the low loop
C14_Witness ==
    /\ ~TEST
    /\ pc = "pulse"
    /\ level = "Low"
    /\ spun = 0
    /\ polled = STUCK + 1
    /\ tout = U16 - 1

-----------------------------------------------------------------------------
(* Properties of the window of an injected pulse *)

\* the program is between the start of an injected pulse and the end of its
\* off wait
InWindow == pc \in {"pulse", "delay"}

\* the next program step is the first poll after an injected pulse
FirstPollAfter == ~TEST /\ pc = "poll" /\ same = 0 /\ sampled # -1

\* C15: inside the window of an injected pulse the input is not sampled and
\* the output is the pulse's own (high during the width loop, low during the
\* wait), whatever the input does; the window holds at most pulse_high +
\* pulse_low busy-wait iterations; the first poll after the window reads the
\* input, and if its level differs from the last sampled one the poll writes
\* it to the output at once, while a level that is back at the last sampled
\* one changes nothing.
C15_BlindWindow ==
    /\ [][InWindow => sampled' = sampled]_vars
    /\ [](InWindow => PB1 = (IF pc = "pulse" THEN 1 ELSE 0))
    /\ [](InWindow => spun <= (IF pc = "pulse" THEN pulse_high ELSE pulse_low))
    /\ []((InWindow /\ spun > 0) => gapIters <= pulse_high + pulse_low)
    /\ [][(FirstPollAfter /\ PB0' = PB0 /\ PB0 # sampled)
            => /\ sampled' = PB0
               /\ PB1' = PB0
               /\ level' = (IF PB0 = 1 THEN "High" ELSE "Low")
               /\ pc' = "poll"]_vars
    /\ [][(FirstPollAfter /\ PB0' = PB0 /\ PB0 = sampled)
            => (PB1' = PB1 /\ level' = level /\ pc' = "poll")]_vars

\* the input went high inside the window: the low run of the output was the
\* off wait and the one poll that copied the change
C15_Witness ==
    /\ DefaultBuild
    /\ pc = "poll"
    /\ level = "High"
    /\ sampled = 1
    /\ PB1 = 1
    /\ pulse_low > 0
    /\ lowIters = pulse_low
    /\ lowPolls = 1

-----------------------------------------------------------------------------
(* Properties of setup() on the bytes above 250 *)

\* the stored bytes above the 25% cap that are not the unset marker
OverCap == 251 .. 254

\* C16 as stated: for the stored bytes 251..254 the duty cycle is inverted,
\* the off part being smaller than the on part.
C16_Inverted ==
    (Calibrated /\ intensity \in OverCap) => pulse_low < pulse_high

\* C16 as amended: for the stored bytes 251..254 the on part is above the
\* loop count of 250 us but the duty cycle is not inverted: the off part
\* 1000 - raw (at least 746 us) is larger than the on part raw, in
\* microseconds and in loop counts, as it is for every stored byte.
C16_NotInverted ==
    /\ pc = "setup_low" => OffMicros(pulse_high) > pulse_high
    /\ Calibrated => pulse_low > pulse_high
    /\ (Calibrated /\ intensity \in OverCap)
           => (pulse_high > us2loops(250) /\ pulse_low >= us2loops(746))

\* setup() has run on the byte 254 at 16 MHz: 813 loops on, 2388 loops off
C16_Witness ==
    /\ Calibrated
    /\ intensity = 254
    /\ F_CPU = 16000000
    /\ pulse_high = 813
    /\ pulse_low = 2388

-----------------------------------------------------------------------------
(* Every conversion of the program *)

\* setup() and the entry of either main loop, for every EEPROM byte, with and
\* without TEST
InitStart ==
    /\ F_CPU \in Clocks
    /\ TEST \in BOOLEAN
    /\ LIMIT_PULSE_UP = FALSE
    /\ intensity \in 0 .. 255
    /\ pc = "setup_pins"
    /\ PB0 = 0
    /\ Reset
    /\ us1 = 0 /\ us2 = 0 /\ loops1 = 0 /\ loops2 = 0

SpecStart == InitStart /\ [][setup \/ MainLoop \/ MainTest]_vars

\* the microseconds setup() converts for the stored byte
EffMicros == IF intensity = Unset THEN DefaultIntensity ELSE intensity

\* C17: every conversion the program makes fits in 16 bits: in setup() the
\* subtraction 1000 - raw does not wrap and the 32-bit loop counts of raw and
\* of 1000 - raw are below 65536, so pulse_high and pulse_low are those
\* counts untruncated; in the TEST build so is the count of 500 us.
C17_NoTruncation ==
    /\ pc = "setup_low" =>
           /\ pulse_high = EffMicros
           /\ OffMicros(pulse_high) = Period - pulse_high
           /\ loops32(OffMicros(pulse_high)) < U16
    /\ pc = "setup_high" =>
           /\ loops32(pulse_high) < U16
           /\ pulse_low = loops32(Period - pulse_high)
    /\ pc \in {"main", "poll", "test_delay"} =>
           /\ pulse_high = loops32(EffMicros)
           /\ pulse_low = loops32(Period - EffMicros)
    /\ pc = "test_delay" =>
           /\ loops32(TestHalf) < U16
           /\ cnt = loops32(TestHalf)

\* the largest conversion of the program (1000 us at 16 MHz, 3201 loops) has
\* been made and the TEST build has converted its 500 us
C17_Witness ==
    /\ TEST
    /\ pc = "test_delay"
    /\ F_CPU = 16000000
    /\ intensity = 0
    /\ pulse_low = 3201
    /\ cnt = 1601

-----------------------------------------------------------------------------
(* Stuck-high input, LIMIT_PULSE_UP build *)

\* the high loop of the LIMIT_PULSE_UP build
LimitHigh == LIMIT_PULSE_UP /\ InLoop /\ level = "High"

\* the high loop has injected a pulse and no poll has read low since
InjectedHigh == LimitHigh /\ gapIters # -1

\* C18: in the LIMIT_PULSE_UP build, once the high loop has injected a pulse
\* and while every poll reads high, the output is low at every poll and
\* during the off wait; it is high only inside send_pulse, for at most
\* pulse_high iterations, and it only goes from low to high in a poll that
\* found the countdown at zero after STUCK + 1 polls and started send_pulse:
\* no step mirrors the input to the output.
C18_StopsMirroring ==
    /\ [](InjectedHigh =>
             /\ pc \in {"poll", "delay"} => PB1 = 0
             /\ PB1 = 1 => (pc = "pulse" /\ cnt + spun = pulse_high))
    /\ [](LimitHigh /\ pc = "pulse" /\ spun = 0 => polled = STUCK + 1)
    /\ [][(LimitHigh /\ level' = "High" /\ PB1 = 0 /\ PB1' = 1)
             => (/\ gapIters # -1
                 /\ pc = "poll" /\ TimedOut(tout) /\ sampled' = 1
                 /\ pc' = "pulse" /\ cnt' = pulse_high /\ spun' = 0)]_vars

\* the high loop starts its second injected pulse
C18_Witness ==
    /\ InjectedHigh
    /\ pc = "pulse"
    /\ spun = 0
    /\ PB1 = 1
    /\ sampled = 1

-----------------------------------------------------------------------------
(* The calibrated durations are read-only after setup() *)

\* setup() has returned
AfterSetup == pc \in {"main", "poll", "pulse", "delay", "test_delay"}

\* C19: once setup() has returned no step writes pulse_high or pulse_low:
\* polls, mirrored edges and the iterations and exits of send_pulse and delay
\* leave them as setup() computed them, so every injected pulse is on for
\* pulse_high iterations and off for pulse_low iterations.
C19_WrittenOnlyBySetup ==
    /\ [][AfterSetup => UNCHANGED <<pulse_high, pulse_low>>]_vars
    /\ [](AfterSetup =>
             /\ pulse_high = us2loops(EffMicros)
             /\ pulse_low = us2loops(OffMicros(EffMicros)))
    /\ []((pc = "pulse" /\ cnt = 0) => spun = pulse_high)
    /\ []((pc = "delay" /\ cnt = 0) => spun = pulse_low)

\* after a mirrored rising edge and a whole injected pulse (send_pulse and
\* delay), the next pulse starts with the width setup() computed
C19_Witness ==
    /\ LIMIT_PULSE_UP
    /\ level = "High"
    /\ pc = "pulse"
    /\ spun = 0
    /\ gapIters = pulse_high + pulse_low
    /\ cnt = pulse_high
    /\ pulse_high = us2loops(EffMicros)
    /\ pulse_low = us2loops(OffMicros(EffMicros))

====
